---- MODULE Spec2Model ----
(***************************************************************************)
(* Search insights: the insight-computation pipeline (getInsightContent,  *)
(* getDaysToQuery, determineCommitsToSearch, queryGraphQL) as a state      *)
(* machine.  One computation starts the commit-resolution calls of all     *)
(* repositories, waits for all of them, issues the bulk count search with  *)
(* retry(3), merges the counts into the data points and returns the view.  *)
(* activate is a second state machine: the settings, the entries that      *)
(* distinctUntilChanged lets through, and the view providers registered    *)
(* in previousSubscriptions and in context.subscriptions.                  *)
(*                                                                         *)
(* Conventions.  Time is an integer number of hours.  A JavaScript Date    *)
(* object of the axis is identified by its position k in `dates` (strict   *)
(* equality of objects is identity), its time value is dates[k].  JS       *)
(* arrays are sequences; a JS index i is position i + 1.  null is <<>>     *)
(* wherever the code distinguishes it from a value, a value v being <<v>>. *)
(***************************************************************************)
EXTENDS Integers, Sequences, FiniteSets, TLC

(* ------------------------------ bounds -------------------------------- *)

\* Longest configured repository list.
MaxRepos == 2
\* Most series of one insight.
MaxSeries == 2
\* Largest match count of the varied count profile.
MaxCount == 2
\* Longest step, in days.
MaxStepDays == 1
\* Number of days the clock of the date-axis specification ranges over.
MaxClockDays == 2

(* ------------------------- program constants -------------------------- *)

\* for (let i = 0, d = now; i < 7; i++)
NumDates == 7
\* .pipe(retry(3))
RetryCount == 3
\* date-fns startOfDay / Duration: hours of one day.
HoursPerDay == 24

\* `${query} count:99999`
DefaultCount == 99999

\* const EMPTY_DATA_POINT_VALUE = null
EMPTY_DATA_POINT_VALUE == <<>>

(* ---------------------------- configuration --------------------------- *)

RepoNames == <<"a", "b", "c", "d">>
SeriesNames == <<"X", "Y", "Z", "W">>

\* insight.step left out of the settings object.
Unset == [unset |-> TRUE]
Duration(d, h) == [days |-> d, hours |-> h]

\* A query string is the sequence of its space-separated parts: words to
\* match and filters.
Word(text) == [word |-> text]
CountFilter(n) == [filter |-> "count", value |-> n]

\* The query fragments of the series: without a count filter, with one at the
\* end, with one at the start, without.
SeriesQueries ==
    <<<<Word("TODO")>>,
      <<Word("FIXME"), CountFilter(1000)>>,
      <<CountFilter(10), Word("HACK")>>,
      <<Word("XXX"), Word("later")>>>>

\* The series of an insight with n series: unique names, each with a query.
SeriesOf(n) == [s \in 1..n |-> [name |-> SeriesNames[s], query |-> SeriesQueries[s]]]

\* The repository lists of the pipeline specification: [], [a], [a, b], ...
RepoLists == {SubSeq(RepoNames, 1, n) : n \in 0..MaxRepos}

\* The steps of the pipeline specification: unset, a zero-length duration
\* object, and whole days.
Steps == {Unset, Duration(0, 0), Duration(MaxStepDays, 0)}

\* All steps of the date-axis specification.
AllSteps == {Unset} \cup {Duration(d, h) : d \in 0..MaxStepDays, h \in {0, 1, HoursPerDay \div 2}}

\* new Date(): the clock of the pipeline specification, mid-day.
Clocks == {10 * HoursPerDay + 9}
AllClocks == {(10 + d) * HoursPerDay + h : d \in 0..MaxClockDays, h \in {0, 9, HoursPerDay - 1}}

Insights == [series : {SeriesOf(n) : n \in 1..MaxSeries}, step : Steps]

(* ------------------------------ date-fns ------------------------------ *)

\* startOfDay(date)
startOfDay(t) == t - (t % HoursPerDay)

\* sub(date, duration)
sub(t, duration) == t - (duration.days * HoursPerDay + duration.hours)

\* isAfter(date, dateToCompare)
isAfter(t, u) == t > u

(* --------------------------- getDaysToQuery --------------------------- *)

\* const step = insight.step || { days: 1 }
StepOf(ins) == IF ins.step = Unset THEN Duration(1, 0) ELSE ins.step

\* Mutant of DaysIter: dates.push(d) in place of dates.unshift(d).
DaysIterPush(st, step) == [i |-> st.i + 1, d |-> sub(st.d, step), dates |-> st.dates \o <<st.d>>]

\* One iteration of the loop: dates.unshift(d); d = sub(d, step)
DaysIter(st, step) == [i |-> st.i + 1, d |-> sub(st.d, step), dates |-> <<st.d>> \o st.dates]

\* Mutant of DaysLoopInit: the loop starts at now, not at the start of its day.
DaysLoopInitNow(now) == [i |-> 0, d |-> now, dates |-> <<>>]

\* for (let i = 0, d = now; i < 7; i++)
DaysLoopInit(now) == [i |-> 0, d |-> startOfDay(now), dates |-> <<>>]
DaysLoopGuard(st) == st.i < NumDates

RECURSIVE DaysLoop(_, _)
DaysLoop(st, step) == IF DaysLoopGuard(st) THEN DaysLoop(DaysIter(st, step), step) ELSE st.dates

getDaysToQuery(step, now) == DaysLoop(DaysLoopInit(now), step)

(* ----------------------------- queryGraphQL --------------------------- *)

\* What sourcegraph.commands.executeCommand('queryGraphQL', ...) ends in: the
\* promise rejects (a timeout, a network failure), or it resolves to {data, errors}.
Rejected == [rejected |-> TRUE, data |-> <<>>, errors |-> <<>>]
Returned(data, errors) == [rejected |-> FALSE, data |-> data, errors |-> errors]

\* Mutant of queryGraphQLThrows: an error list beside data is not a failure.
queryGraphQLThrowsUnlessData(resp) ==
    IF resp.rejected THEN TRUE ELSE Len(resp.errors) > 0 /\ Len(resp.data) = 0

\* queryGraphQL: throws when the command rejects or when errors is a non-empty
\* list, and returns data otherwise.
queryGraphQLThrows(resp) == resp.rejected \/ Len(resp.errors) > 0
queryGraphQLData(resp) == resp.data

\* The field name `search${i}` of sub-query i, and +name.slice('search'.length).
FieldName(i) == <<"search", i>>
FieldIndex(name) == name[2]

(* ----------------------- determineCommitsToSearch --------------------- *)

\* A commit of a CommitSearchResult: committer is null (<<>>) or has a date.
Commit(oid, committer) == [oid |-> oid, committer |-> committer]

\* commit: null of a SearchCommit.
NullCommit == <<>>

\* Mutant of EntryThrows: the committer date is not compared with the date.
EntryThrowsNoDateCheck(dts, entries, p) ==
    LET i == FieldIndex(entries[p][1])
        results == entries[p][2]
    IN  IF i # p - 1 THEN TRUE
        ELSE IF Len(results) = 0 THEN FALSE
        ELSE results[1].committer = <<>>

\* Mutant of EntryThrows: a sub-query without result throws.
EntryThrowsOnNoResult(dts, entries, p) ==
    LET i == FieldIndex(entries[p][1])
        results == entries[p][2]
    IN  IF i # p - 1 THEN TRUE
        ELSE IF Len(results) = 0 THEN TRUE
        ELSE IF results[1].committer = <<>> THEN TRUE
        ELSE results[1].committer[1] > dts[i + 1]

\* Mutant of EntryThrows: the index of the field is not compared with its
\* position.
EntryThrowsNoIndexCheck(dts, entries, p) ==
    LET i == FieldIndex(entries[p][1])
        results == entries[p][2]
    IN  IF Len(results) = 0 THEN FALSE
        ELSE IF results[1].committer = <<>> THEN TRUE
        ELSE isAfter(results[1].committer[1], dts[i + 1])

\* Mutant of EntryThrows: a commit without committer is taken as it is.
EntryThrowsNoCommitterCheck(dts, entries, p) ==
    LET i == FieldIndex(entries[p][1])
        results == entries[p][2]
    IN  IF i # p - 1 THEN TRUE
        ELSE IF Len(results) = 0 THEN FALSE
        ELSE IF results[1].committer = <<>> THEN FALSE
        ELSE isAfter(results[1].committer[1], dts[i + 1])

\* The map callback throws at entry p (index p - 1) of Object.entries(commitResults):
\* the field is not at its index; or, when there is a result, its commit has no
\* committer or is dated after the date of the sub-query.
EntryThrows(dts, entries, p) ==
    LET i == FieldIndex(entries[p][1])
        results == entries[p][2]
    IN  IF i # p - 1 THEN TRUE
        ELSE IF Len(results) = 0 THEN FALSE
        ELSE IF results[1].committer = <<>> THEN TRUE
        ELSE isAfter(results[1].committer[1], dts[i + 1])

\* What the map callback returns for entry p: { commit, date }, date being the
\* Date object dates[i].
EntryCommit(entries, p) ==
    LET i == FieldIndex(entries[p][1])
        results == entries[p][2]
    IN  IF Len(results) = 0
        THEN [commit |-> NullCommit, date |-> i + 1]
        ELSE [commit |-> results[1].oid, date |-> i + 1]

determineCommitsThrows(dts, resp) ==
    IF queryGraphQLThrows(resp) THEN TRUE
    ELSE \E p \in 1..Len(queryGraphQLData(resp)) : EntryThrows(dts, queryGraphQLData(resp), p)

determineCommitsToSearch(dts, resp) ==
    [p \in 1..Len(queryGraphQLData(resp)) |-> EntryCommit(queryGraphQLData(resp), p)]

(* ------------------- the remote API: commit resolution ---------------- *)

\* The dates (positions of the axis) whose sub-query finds no commit: none,
\* the earliest BornLate, the first and one in the middle, all.
BornLate == 2
AbsentSets == {{}, 1..BornLate, {1, (NumDates + 1) \div 2}, 1..NumDates}

\* The commit the search backend finds for sub-query k of repository repo: it
\* is dated at the boundary for odd k and one hour before it for even k.
GoodCommit(dts, repo, k) == Commit(<<repo, k>>, <<dts[k] - ((k + 1) % 2)>>)

\* A response that keeps the GraphQL contract: every field, in request order.
GoodEntries(dts, repo, absent) ==
    [k \in 1..Len(dts) |->
        <<FieldName(k - 1), IF k \in absent THEN <<>> ELSE <<GoodCommit(dts, repo, k)>>>>]

\* Responses the backend must not give: a commit dated after the boundary, a
\* commit without committer, two fields swapped, a field left out.
Positions == {1, NumDates}
GoodField(dts, repo, k) == GoodEntries(dts, repo, {})[k]
LateEntries(dts, repo, k) ==
    [j \in 1..Len(dts) |->
        IF j = k THEN <<FieldName(j - 1), <<Commit(<<repo, j>>, <<dts[j] + 1>>)>>>>
                 ELSE GoodField(dts, repo, j)]
NoCommitterEntries(dts, repo, k) ==
    [j \in 1..Len(dts) |->
        IF j = k THEN <<FieldName(j - 1), <<Commit(<<repo, j>>, <<>>)>>>>
                 ELSE GoodField(dts, repo, j)]
SwappedEntries(dts, repo) ==
    [j \in 1..Len(dts) |->
        IF j = 1 THEN GoodField(dts, repo, 2)
        ELSE IF j = 2 THEN GoodField(dts, repo, 1) ELSE GoodField(dts, repo, j)]
RemoveAt(s, k) == SubSeq(s, 1, k - 1) \o SubSeq(s, k + 1, Len(s))
MissingEntries(dts, repo, k) == RemoveAt(GoodEntries(dts, repo, {}), k)

CommitResponses(dts, repo) ==
    {Rejected, Returned(GoodEntries(dts, repo, {}), <<"error">>), Returned(<<>>, <<"error">>)}
    \cup {Returned(GoodEntries(dts, repo, absent), <<>>) : absent \in AbsentSets}
    \cup {Returned(LateEntries(dts, repo, k), <<>>) : k \in Positions}
    \cup {Returned(NoCommitterEntries(dts, repo, k), <<>>) : k \in Positions}
    \cup {Returned(SwappedEntries(dts, repo), <<>>)}
    \cup {Returned(MissingEntries(dts, repo, k), <<>>) : k \in Positions}

(* --------------------------- getInsightContent ------------------------ *)

\* Mutant of IndexOfDate: the first position whose date has the same time value.
IndexOfDateByValue(dts, k) == CHOOSE j \in 1..Len(dts) : dts[j] = dts[k] /\ \A i \in 1..(j - 1) : dts[i] # dts[k]

\* dates.indexOf(date) for the Date object at position k of dates: indexOf
\* compares objects by identity, so it finds position k itself, also when
\* other dates of the axis have the same time value.
IndexOfDate(dts, k) == k

\* Initialize data series object by all dates: every series EMPTY_DATA_POINT_VALUE.
InitialData(dts, series) ==
    [j \in {IndexOfDate(dts, k) : k \in 1..Len(dts)} |->
        [date |-> dts[j],
         vals |-> [n \in {series[s].name : s \in 1..Len(series)} |-> EMPTY_DATA_POINT_VALUE]]]

RECURSIVE Flat(_)
\* Array.prototype.flat
Flat(ss) == IF ss = <<>> THEN <<>> ELSE Head(ss) \o Flat(Tail(ss))

\* (await determineCommitsToSearch(dates, repo)).map(commit => ({ repo, ...commit }))
WithRepo(repo, cs) == [p \in 1..Len(cs) |-> [repo |-> repo, commit |-> cs[p].commit, date |-> cs[p].date]]

\* Mutant of HasCommit: the filter keeps every commit, null included.
HasCommitAlways(c) == TRUE

\* .filter(commitData => commitData.commit !== null)
HasCommit(c) == c.commit # NullCommit

\* Mutant of RepoCommits: a date is kept only when every repository has a
\* commit for it.
RepoCommitsWholeDates(rs, table) ==
    LET flat == Flat([r \in 1..Len(rs) |-> WithRepo(rs[r], table[r])])
    IN  SelectSeq(flat, LAMBDA c :
            \A q \in 1..Len(flat) : flat[q].date = c.date => HasCommit(flat[q]))

\* The results of Promise.all, flattened and filtered.
RepoCommits(rs, table) ==
    SelectSeq(Flat([r \in 1..Len(rs) |-> WithRepo(rs[r], table[r])]), HasCommit)

\* path: string | undefined
NoPath == <<>>

\* lodash escapeRegExp(string): the regular expression source that matches
\* exactly the string.
escapeRegExp(string) == [escaped |-> string]

\* const pathRegexp = path ? `^${escapeRegExp(path)}/` : undefined
PathRegexp(p) ==
    IF p = NoPath \/ p = <<"">> THEN <<>> ELSE <<[start |-> escapeRegExp(p[1]), then |-> "/"]>>

\* queryHasCountFilter(query) of ./query-has-count-filter: the query has a
\* count filter.
queryHasCountFilter(query) ==
    \E t \in 1..Len(query) : "filter" \in DOMAIN query[t] /\ query[t].filter = "count"

\* Mutant of getQueryWithCountFilter: count:99999 is always appended.
getQueryWithCountFilterAlways(query) == query \o <<CountFilter(DefaultCount)>>

\* queryHasCountFilter(query) ? query : `${query} count:99999`
getQueryWithCountFilter(query) ==
    IF queryHasCountFilter(query) THEN query ELSE query \o <<CountFilter(DefaultCount)>>

\* `repo:^${escapeRegExp(repo)}$@${commit}`
RepoAtCommit(repo, commit) == [filter |-> "repo", exactly |-> escapeRegExp(repo), rev |-> commit]

\* ` file:${pathRegexp}`
FileFilter(regexp) == [filter |-> "file", regexp |-> regexp]

\* The query string of a count search:
\* [repo filter, pathRegexp && file filter, getQueryWithCountFilter(query)].filter(Boolean).join(' ')
CountQuery(repo, commit, p, query) ==
    <<RepoAtCommit(repo, commit)>>
    \o (IF PathRegexp(p) = <<>> THEN <<>> ELSE <<FileFilter(PathRegexp(p)[1])>>)
    \o getQueryWithCountFilter(query)

\* insight.series.flatMap(({ query, name }) => repoCommits.map(...))
SearchQueries(series, repoCommits, p) ==
    Flat([s \in 1..Len(series) |->
        [c \in 1..Len(repoCommits) |->
            [name |-> series[s].name,
             date |-> repoCommits[c].date,
             repo |-> repoCommits[c].repo,
             commit |-> repoCommits[c].commit,
             query |-> CountQuery(repoCommits[c].repo, repoCommits[c].commit, p, series[s].query)]]])

\* Mutant of ShouldRetry: one retry too many.
ShouldRetryOnceMore(attempts) == attempts - 1 <= RetryCount

\* retry(3): an error of the source is answered by a new subscription while
\* fewer than 3 retries were made; `attempts` subscriptions were made so far.
ShouldRetry(attempts) == attempts - 1 < RetryCount

\* result?.results.matchCount, then countForRepo ?? 0
CountOrZero(result) == IF result = <<>> THEN 0 ELSE result[1]

\* Mutant of MergeOne: the count is written over the slot, never added to it.
MergeOneOverwrite(dts, queries, d, entry) ==
    LET query == queries[FieldIndex(entry[1]) + 1]
    IN  [d EXCEPT ![IndexOfDate(dts, query.date)].vals[query.name] = <<CountOrZero(entry[2])>>]

\* Mutant of MergeOne: the date of a result is taken from its index modulo the
\* number of dates, not from its task.
MergeOneByPosition(dts, queries, d, entry) ==
    LET index == FieldIndex(entry[1])
        dataKey == queries[index + 1].name
        dataIndex == (index % Len(dts)) + 1
        countForRepo == CountOrZero(entry[2])
    IN  IF d[dataIndex].vals[dataKey] = EMPTY_DATA_POINT_VALUE
        THEN [d EXCEPT ![dataIndex].vals[dataKey] = <<countForRepo>>]
        ELSE [d EXCEPT ![dataIndex].vals[dataKey] = <<d[dataIndex].vals[dataKey][1] + countForRepo>>]

\* Mutant of MergeOne: a null result is skipped.
MergeOneSkipNull(dts, queries, d, entry) ==
    LET index == FieldIndex(entry[1])
        query == queries[index + 1]
        dataKey == query.name
        dataIndex == IndexOfDate(dts, query.date)
        object == d[dataIndex]
    IN  IF entry[2] = <<>> THEN d
        ELSE IF object.vals[dataKey] = EMPTY_DATA_POINT_VALUE
        THEN [d EXCEPT ![dataIndex].vals[dataKey] = <<entry[2][1]>>]
        ELSE [d EXCEPT ![dataIndex].vals[dataKey] = <<object.vals[dataKey][1] + entry[2][1]>>]

\* The body of the merge loop for one search result.
MergeOne(dts, queries, d, entry) ==
    LET index == FieldIndex(entry[1])
        query == queries[index + 1]
        dataKey == query.name
        dataIndex == IndexOfDate(dts, query.date)
        object == d[dataIndex]
        countForRepo == CountOrZero(entry[2])
    IN  IF object.vals[dataKey] = EMPTY_DATA_POINT_VALUE
        THEN [d EXCEPT ![dataIndex].vals[dataKey] = <<countForRepo>>]
        ELSE [d EXCEPT ![dataIndex].vals[dataKey] = <<object.vals[dataKey][1] + countForRepo>>]

RECURSIVE MergeFrom(_, _, _, _, _)
\* Mutant of Merge: the j-th result of the response is taken as the result of
\* the j-th task, whatever the name of its field.
MergeFrom(dts, queries, d, entries, j) ==
    IF j > Len(entries) THEN d
    ELSE MergeFrom(dts, queries,
                   MergeOne(dts, queries, d, <<FieldName(j - 1), entries[j][2]>>), entries, j + 1)
MergeByArrival(dts, queries, d, entries) == MergeFrom(dts, queries, d, entries, 1)

RECURSIVE Merge(_, _, _, _)
\* for (const { name, date, result } of searchResults), over Object.entries(rawSearchResults).
Merge(dts, queries, d, entries) ==
    IF entries = <<>> THEN d
    ELSE Merge(dts, queries, MergeOne(dts, queries, d, Head(entries)), Tail(entries))

\* date-fns formatISO(date): the ISO 8601 text of the date in the local time
\* zone, as its date part and its time part.
formatISO(t) == [isoDate |-> t \div HoursPerDay, isoTime |-> t % HoursPerDay]

\* Mutant of RepoFilter: only the first repository.
RepoFilterFirstOnly(rs) ==
    [filter |-> "repo", anyOf |-> [r \in 1..(IF rs = <<>> THEN 0 ELSE 1) |-> escapeRegExp(rs[r])]]

\* const repoFilter = `repo:^(${repos.map(escapeRegExp).join('|')})$`
RepoFilter(rs) == [filter |-> "repo", anyOf |-> [r \in 1..Len(rs) |-> escapeRegExp(rs[r])]]

\* `${repoFilter} type:diff after:${after} before:${before} ${series.query}`
DiffQuery(repoFilter, after, before, query) ==
    <<repoFilter,
      [filter |-> "type", type |-> "diff"],
      [filter |-> "after", after |-> after],
      [filter |-> "before", before |-> before]>> \o query

\* new URL('/search', sourcegraphURL) with searchParams q set: url.href
SearchURL(q) == [pathname |-> "/search", q |-> q]

\* Mutant of LinkURL: the window ends one step after the date.
LinkURLWindowAfter(rs, step, t, query) ==
    SearchURL(DiffQuery(RepoFilter(rs), formatISO(t), formatISO(sub(t, step)), query))

\* The link of one date: to the diff search between the date one step
\* earlier and the date.
LinkURL(rs, step, t, query) ==
    SearchURL(DiffQuery(RepoFilter(rs), formatISO(sub(t, step)), formatISO(t), query))

\* linkURLs: dates.map(date => ...)
LinkURLs(dts, step, rs, query) == [k \in 1..Len(dts) |-> LinkURL(rs, step, dts[k], query)]

\* The returned view: the chart's data and, for each series, its dataKey and
\* its linkURLs.
View(series, d, dts, step, rs) ==
    [data |-> d,
     series |-> [s \in 1..Len(series) |->
                    [dataKey |-> series[s].name,
                     linkURLs |-> LinkURLs(dts, step, rs, series[s].query)]]]

(* --------------------- the remote API: count search ------------------- *)

CountProfiles == {"zero", "weekly", "perRepo", "varied"}
WeeklyCounts == <<3, 3, 4, 4, 4, 5, 5>>

\* The match count the backend reports for a task under a profile.
MatchCount(profile, task) ==
    CASE profile = "zero" -> 0
      [] profile = "weekly" -> WeeklyCounts[((task.date - 1) % Len(WeeklyCounts)) + 1]
      [] profile = "perRepo" -> IF task.repo = RepoNames[1] THEN 2 ELSE 5
      [] OTHER -> (task.date + (IF task.repo = RepoNames[1] THEN 0 ELSE 1)
                    + (IF task.name = SeriesNames[1] THEN 0 ELSE 1)) % (MaxCount + 1)

\* The fields of a successful response in request order; the results of the
\* sub-queries in nulls are null.
CountEntries(queries, profile, nulls) ==
    [p \in 1..Len(queries) |->
        <<FieldName(p - 1), IF p \in nulls THEN <<>> ELSE <<MatchCount(profile, queries[p])>>>>]

Reverse(s) == [p \in 1..Len(s) |-> s[Len(s) + 1 - p]]

\* Successful responses: every requested field, in request order or reversed;
\* the result of the first or of the last sub-query may be null.
GoodSearchResponses(queries) ==
    {Returned(e, <<>>) : e \in
        {CountEntries(queries, profile, nulls) : profile \in CountProfiles, nulls \in {{}, {1}}}
        \cup {CountEntries(queries, "perRepo", {Len(queries)})}
        \cup {Reverse(CountEntries(queries, profile, {})) : profile \in CountProfiles}}

\* Failures: a timeout (the command rejects), or an error list of the API (a
\* malformed query), with or without data beside it.
Timeout == Rejected
BadSearchResponses(queries) ==
    {Timeout, Returned(<<>>, <<"syntax error">>), Returned(CountEntries(queries, "zero", {}), <<"error">>)}

FailureKind(resp) == IF resp.rejected THEN "timeout" ELSE "errors"

(* ------------------- the commit-resolution request -------------------- *)

\* `repo:^${escapeRegExp(repo)}$ type:commit before:${formatISO(date)} count:1`
CommitQuery(repo, date) ==
    <<[filter |-> "repo", exactly |-> escapeRegExp(repo)],
      [filter |-> "type", type |-> "commit"],
      [filter |-> "before", before |-> formatISO(date)],
      CountFilter(1)>>

\* dates.map(date => ...)
CommitQueries(dts, repo) == [k \in 1..Len(dts) |-> CommitQuery(repo, dts[k])]

\* The request of the one queryGraphQL call of determineCommitsToSearch: the
\* query BulkSearchCommits with a field search{i} on the variable query{i} for
\* every commit query.
BulkSearchCommits(dts, repo) ==
    [k \in 1..Len(dts) |->
        [field |-> FieldName(k - 1), variable |-> <<"query", k - 1>>,
         query |-> CommitQueries(dts, repo)[k]]]

\* Mutant of CommitCalls: one call per repository and date, each with the one
\* field search0.
CommitCallsPerDate(dts, rs) ==
    Flat([r \in 1..Len(rs) |->
        [k \in 1..Len(dts) |-> BulkSearchCommits(<<dts[k]>>, rs[r])]])

\* repos.map(repo => determineCommitsToSearch(dates, repo)): one call per
\* repository.
CommitCalls(dts, rs) == [r \in 1..Len(rs) |-> BulkSearchCommits(dts, rs[r])]

(* -------------------------------- state ------------------------------- *)

VARIABLES
    insight,          \* the insight configuration of the computation
    repos,            \* the repositories the computation queries
    clock,            \* new Date() at the start of the computation
    pc,               \* "idle", "resolving", "searching", "done", "failed"
    daysLoop,         \* getDaysToQuery's loop: i, d and dates
    dates,            \* the date axis (<<>> before the computation starts)
    data,             \* the data points
    commitRequests,   \* the commit-resolution calls issued: the request of each
    call,             \* per repository: "pending", "done", "failed" commit resolution
    commitResults,    \* per repository: the response its commit-resolution call got
    commits,          \* per repository: what determineCommitsToSearch returned
    searchQueries,    \* the count-search tasks
    attempts,         \* bulk search calls issued so far
    lastOutcome,      \* how the latest bulk search call ended: "none", "timeout", "errors", "ok"
    rawSearchResults, \* the data of the successful bulk search
    failure,          \* the failure the caller got: "none", "commitResolution", "countSearch"
    view              \* <<>>, or <<v>> for the returned view v

VARIABLES
    path,             \* the path argument of the computation: <<>> for undefined
    earlier           \* <<>>, or <<r>> for the record r of an earlier computation

VARIABLES
    settings,              \* sourcegraph.configuration.get().value, as its entries in key order
    lastEntries,           \* distinctUntilChanged: <<>>, or <<e>> for the entries e emitted last
    merging,               \* mergeAll: the entries of the emission not yet passed to the subscriber
    previousSubscriptions, \* the providers held by the subscription bag previousSubscriptions
    bagInContext,          \* the bag previousSubscriptions was added to context.subscriptions
    contextSubscriptions,  \* the providers added to context.subscriptions directly
    notifications,         \* configuration change notifications so far
    phase,                 \* "inactive", "merging", "idle"
    provided               \* <<>>, or <<c>> for the latest provideView call c

pipelineVars == <<insight, repos, clock, pc, daysLoop, dates, data, commitRequests, call,
                  commitResults, commits,
                  searchQueries, attempts, lastOutcome, rawSearchResults, failure, view>>

activateVars == <<settings, lastEntries, merging, previousSubscriptions, bagInContext,
                  contextSubscriptions, notifications, phase, provided>>

vars == <<pipelineVars, path, earlier, activateVars>>

NoResponse == [rejected |-> FALSE, data |-> <<>>, errors |-> <<"none">>]

Idle ==
    /\ pc = "idle"
    /\ daysLoop = DaysLoopInit(clock)
    /\ dates = <<>>
    /\ data = <<>>
    /\ commitRequests = <<>>
    /\ call = <<>>
    /\ commitResults = <<>>
    /\ commits = <<>>
    /\ searchQueries = <<>>
    /\ attempts = 0
    /\ lastOutcome = "none"
    /\ rawSearchResults = <<>>
    /\ failure = "none"
    /\ view = <<>>

\* activate has not been called.
NotActivated ==
    /\ settings = <<>>
    /\ lastEntries = <<>>
    /\ merging = <<>>
    /\ previousSubscriptions = <<>>
    /\ bagInContext = FALSE
    /\ contextSubscriptions = <<>>
    /\ notifications = 0
    /\ phase = "inactive"
    /\ provided = <<>>

Init ==
    /\ insight \in Insights
    /\ repos \in RepoLists
    /\ path = NoPath
    /\ clock \in Clocks
    /\ Idle
    /\ earlier = <<>>
    /\ NotActivated

(* ------------------------------- actions ------------------------------ *)

\* Mutant of IssueSearch: with no task the bulk search is not issued.
IssueSearchUnlessEmpty(table) ==
    /\ searchQueries' = SearchQueries(insight.series, RepoCommits(repos, table), path)
    /\ attempts' = IF searchQueries' = <<>> THEN 0 ELSE 1
    /\ pc' = IF searchQueries' = <<>> THEN "done" ELSE "searching"

\* The bulk search is issued: defer(() => queryGraphQL(...)) is subscribed to.
IssueSearch(table) ==
    /\ searchQueries' = SearchQueries(insight.series, RepoCommits(repos, table), path)
    /\ attempts' = 1
    /\ pc' = "searching"

\* getInsightContent is called: the axis, the initial data, and one
\* commit-resolution call per repository, all started before the first await
\* returns.  With no repository Promise.all resolves at once and the bulk
\* search is issued.
Start ==
    /\ pc = "idle"
    /\ dates' = getDaysToQuery(StepOf(insight), clock)
    /\ data' = InitialData(dates', insight.series)
    /\ commitRequests' = CommitCalls(dates', repos)
    /\ call' = [r \in 1..Len(repos) |-> "pending"]
    /\ commitResults' = [r \in 1..Len(repos) |-> NoResponse]
    /\ commits' = [r \in 1..Len(repos) |-> <<>>]
    /\ IF repos = <<>>
       THEN IssueSearch(<<>>)
       ELSE /\ pc' = "resolving"
            /\ UNCHANGED <<searchQueries, attempts>>
    /\ UNCHANGED <<insight, repos, clock, daysLoop, lastOutcome, rawSearchResults, failure, view>>
    /\ UNCHANGED <<path, earlier, activateVars>>

\* Mutant of CommitsResolved: the commits are collected in the order in which
\* the calls return.
CommitsResolvedInCompletionOrder(r) ==
    /\ call[r] = "pending"
    /\ \E resp \in CommitResponses(dates, repos[r]) :
        /\ ~determineCommitsThrows(dates, resp)
        /\ commitResults' = [commitResults EXCEPT ![r] = resp]
        /\ commits' = [commits EXCEPT ![Cardinality({q \in DOMAIN call : call[q] = "done"}) + 1] =
                            determineCommitsToSearch(dates, resp)]
    /\ call' = [call EXCEPT ![r] = "done"]
    /\ IF pc = "resolving" /\ \A q \in DOMAIN call' : call'[q] = "done"
       THEN IssueSearch(commits')
       ELSE UNCHANGED <<pc, searchQueries, attempts>>
    /\ UNCHANGED <<insight, repos, clock, commitRequests, daysLoop, dates, data, lastOutcome,
                   rawSearchResults, failure, view>>
    /\ UNCHANGED <<path, earlier, activateVars>>

\* Mutant of CommitsResolved: the bulk search is issued as soon as one call
\* has returned.
CommitsResolvedEager(r) ==
    /\ call[r] = "pending"
    /\ \E resp \in CommitResponses(dates, repos[r]) :
        /\ ~determineCommitsThrows(dates, resp)
        /\ commitResults' = [commitResults EXCEPT ![r] = resp]
        /\ commits' = [commits EXCEPT ![r] = determineCommitsToSearch(dates, resp)]
    /\ call' = [call EXCEPT ![r] = "done"]
    /\ IF pc = "resolving"
       THEN IssueSearch(commits')
       ELSE UNCHANGED <<pc, searchQueries, attempts>>
    /\ UNCHANGED <<insight, repos, clock, commitRequests, daysLoop, dates, data, lastOutcome,
                   rawSearchResults, failure, view>>
    /\ UNCHANGED <<path, earlier, activateVars>>

\* The commit-resolution call of repository r returns and
\* determineCommitsToSearch returns its commits.  When it was the last one,
\* Promise.all resolves and the bulk search is issued.
CommitsResolved(r) ==
    /\ call[r] = "pending"
    /\ \E resp \in CommitResponses(dates, repos[r]) :
        /\ ~determineCommitsThrows(dates, resp)
        /\ commitResults' = [commitResults EXCEPT ![r] = resp]
        /\ commits' = [commits EXCEPT ![r] = determineCommitsToSearch(dates, resp)]
    /\ call' = [call EXCEPT ![r] = "done"]
    /\ IF pc = "resolving" /\ \A q \in DOMAIN call' : call'[q] = "done"
       THEN IssueSearch(commits')
       ELSE UNCHANGED <<pc, searchQueries, attempts>>
    /\ UNCHANGED <<insight, repos, clock, commitRequests, daysLoop, dates, data, lastOutcome,
                   rawSearchResults, failure, view>>
    /\ UNCHANGED <<path, earlier, activateVars>>

\* Mutant of CommitsFailed: the failure of one repository is swallowed and the
\* computation goes on with the commits of the others.
CommitsFailedSwallowed(r) ==
    /\ call[r] = "pending"
    /\ \E resp \in CommitResponses(dates, repos[r]) :
        /\ determineCommitsThrows(dates, resp)
        /\ commitResults' = [commitResults EXCEPT ![r] = resp]
    /\ call' = [call EXCEPT ![r] = "failed"]
    /\ IF pc = "resolving" /\ \A q \in DOMAIN call' : call'[q] # "pending"
       THEN IssueSearch(commits)
       ELSE UNCHANGED <<pc, searchQueries, attempts>>
    /\ UNCHANGED <<insight, repos, clock, commitRequests, daysLoop, dates, data, commits,
                   lastOutcome, rawSearchResults, failure, view>>
    /\ UNCHANGED <<path, earlier, activateVars>>

\* Mutant of CommitsFailed: the call of a repository that failed is issued
\* once more before the computation fails.
CommitsFailedRetried(r) ==
    /\ call[r] = "pending"
    /\ \E resp \in CommitResponses(dates, repos[r]) :
        /\ determineCommitsThrows(dates, resp)
        /\ commitResults' = [commitResults EXCEPT ![r] = resp]
    /\ IF Len(commitRequests) = Len(repos)
       THEN /\ commitRequests' = Append(commitRequests, BulkSearchCommits(dates, repos[r]))
            /\ UNCHANGED <<call, pc, failure>>
       ELSE /\ call' = [call EXCEPT ![r] = "failed"]
            /\ IF pc = "resolving"
               THEN pc' = "failed" /\ failure' = "commitResolution"
               ELSE UNCHANGED <<pc, failure>>
            /\ UNCHANGED commitRequests
    /\ UNCHANGED <<insight, repos, clock, daysLoop, dates, data, commits, searchQueries,
                   attempts, lastOutcome, rawSearchResults, view>>
    /\ UNCHANGED <<path, earlier, activateVars>>

\* The commit-resolution call of repository r fails, or determineCommitsToSearch
\* throws on its response: Promise.all rejects and so does getInsightContent,
\* unless it has already (the calls of the other repositories are not aborted).
CommitsFailed(r) ==
    /\ call[r] = "pending"
    /\ \E resp \in CommitResponses(dates, repos[r]) :
        /\ determineCommitsThrows(dates, resp)
        /\ commitResults' = [commitResults EXCEPT ![r] = resp]
    /\ call' = [call EXCEPT ![r] = "failed"]
    /\ IF pc = "resolving"
       THEN pc' = "failed" /\ failure' = "commitResolution"
       ELSE UNCHANGED <<pc, failure>>
    /\ UNCHANGED <<insight, repos, clock, commitRequests, daysLoop, dates, data, commits,
                   searchQueries, attempts, lastOutcome, rawSearchResults, view>>
    /\ UNCHANGED <<path, earlier, activateVars>>

\* A bulk search call fails and retry(3) subscribes again: a new call.
SearchRetried ==
    /\ pc = "searching"
    /\ ShouldRetry(attempts)
    /\ \E resp \in BadSearchResponses(searchQueries) :
        /\ queryGraphQLThrows(resp)
        /\ lastOutcome' = FailureKind(resp)
    /\ attempts' = attempts + 1
    /\ UNCHANGED <<insight, repos, clock, commitRequests, pc, daysLoop, dates, data, call,
                   commitResults, commits, searchQueries, rawSearchResults, failure, view>>
    /\ UNCHANGED <<path, earlier, activateVars>>

\* A bulk search call fails with no retry left: toPromise() rejects.
SearchFailed ==
    /\ pc = "searching"
    /\ ~ShouldRetry(attempts)
    /\ \E resp \in BadSearchResponses(searchQueries) :
        /\ queryGraphQLThrows(resp)
        /\ lastOutcome' = FailureKind(resp)
    /\ pc' = "failed"
    /\ failure' = "countSearch"
    /\ UNCHANGED <<insight, repos, clock, commitRequests, daysLoop, dates, data, call,
                   commitResults, commits, searchQueries, attempts, rawSearchResults, view>>
    /\ UNCHANGED <<path, earlier, activateVars>>

\* A bulk search call succeeds: the counts are merged into the data and the
\* view is returned.
SearchSucceeded ==
    /\ pc = "searching"
    /\ \E resp \in GoodSearchResponses(searchQueries) :
        /\ ~queryGraphQLThrows(resp)
        /\ rawSearchResults' = queryGraphQLData(resp)
    /\ lastOutcome' = "ok"
    /\ data' = Merge(dates, searchQueries, data, rawSearchResults')
    /\ view' = <<View(insight.series, data', dates, StepOf(insight), repos)>>
    /\ pc' = "done"
    /\ UNCHANGED <<insight, repos, clock, commitRequests, daysLoop, dates, call, commitResults,
                   commits, searchQueries, attempts, failure>>
    /\ UNCHANGED <<path, earlier, activateVars>>

Next ==
    \/ Start
    \/ \E r \in DOMAIN call : CommitsResolved(r)
    \/ \E r \in DOMAIN call : CommitsFailed(r)
    \/ SearchRetried
    \/ SearchFailed
    \/ SearchSucceeded

Spec == Init /\ [][Next]_vars

(* ------------------- getDaysToQuery, iteration by iteration ----------- *)

\* The date axis alone, for every step and clock: the loop of getDaysToQuery
\* taken one iteration at a time, and its return.
InitDates ==
    /\ insight \in [series : {SeriesOf(1)}, step : AllSteps]
    /\ repos = <<>>
    /\ path = NoPath
    /\ clock \in AllClocks
    /\ Idle
    /\ earlier = <<>>
    /\ NotActivated

DaysStep ==
    /\ pc = "idle"
    /\ DaysLoopGuard(daysLoop)
    /\ daysLoop' = DaysIter(daysLoop, StepOf(insight))
    /\ UNCHANGED <<insight, repos, clock, commitRequests, pc, dates, data, call, commitResults,
                   commits, searchQueries, attempts, lastOutcome, rawSearchResults, failure, view>>
    /\ UNCHANGED <<path, earlier, activateVars>>

DaysReturn ==
    /\ pc = "idle"
    /\ ~DaysLoopGuard(daysLoop)
    /\ dates' = daysLoop.dates
    /\ pc' = "axis"
    /\ UNCHANGED <<insight, repos, clock, commitRequests, daysLoop, data, call, commitResults,
                   commits, searchQueries, attempts, lastOutcome, rawSearchResults, failure, view>>
    /\ UNCHANGED <<path, earlier, activateVars>>

NextDates == DaysStep \/ DaysReturn

SpecDates == InitDates /\ [][NextDates]_vars

(* ------------------------ two computations in turn ------------------- *)

\* The path arguments: undefined, a directory.
Paths == {NoPath, <<"src">>}

\* A later time of new Date() within the day of t.
LaterThatDay(t) == {startOfDay(t) + HoursPerDay - 1}

\* What is kept of a computation that has settled, to compare the next with.
Settled ==
    [clock |-> clock, dates |-> dates, commitResults |-> commitResults,
     searchQueries |-> searchQueries, attempts |-> attempts, lastOutcome |-> lastOutcome,
     rawSearchResults |-> rawSearchResults, pc |-> pc, failure |-> failure, view |-> view]

\* getInsightContent is called again with the same arguments, on the same
\* day, after the earlier call has settled and its remote calls have returned:
\* every local of the function is new.
Again ==
    /\ pc \in {"done", "failed"}
    /\ \A r \in DOMAIN call : call[r] # "pending"
    /\ earlier = <<>>
    /\ earlier' = <<Settled>>
    /\ clock' \in LaterThatDay(clock)
    /\ pc' = "idle"
    /\ daysLoop' = DaysLoopInit(clock')
    /\ dates' = <<>>
    /\ data' = <<>>
    /\ commitRequests' = <<>>
    /\ call' = <<>>
    /\ commitResults' = <<>>
    /\ commits' = <<>>
    /\ searchQueries' = <<>>
    /\ attempts' = 0
    /\ lastOutcome' = "none"
    /\ rawSearchResults' = <<>>
    /\ failure' = "none"
    /\ view' = <<>>
    /\ UNCHANGED <<insight, repos, path, activateVars>>

InitRuns ==
    /\ insight \in [series : {SeriesOf(1)}, step : {Unset}]
    /\ repos \in {<<>>, <<RepoNames[1]>>}
    /\ path \in Paths
    /\ clock \in Clocks
    /\ Idle
    /\ earlier = <<>>
    /\ NotActivated

NextRuns == Next \/ Again

SpecRuns == InitRuns /\ [][NextRuns]_vars

(* ------------------------------- activate ----------------------------- *)

\* Configuration change notifications after activation.
MaxNotifications == 2

\* A settings key is the sequence of its dot-separated parts; the prefix is
\* 'searchInsights.insight.'
InsightPrefix == <<"searchInsights", "insight">>
InsightNames == <<"A", "B">>
InsightKey(name) == InsightPrefix \o <<name>>
\* A key of the settings that has the first part of the prefix, and not the prefix.
OtherKey == <<"searchInsights", "insights", "A">>
SettingsKeys == {OtherKey} \cup {InsightKey(InsightNames[n]) : n \in 1..Len(InsightNames)}

\* A filter on the name of the extension alone.
StartsWithExtensionName(key) == key[1] = InsightPrefix[1]

\* key.startsWith('searchInsights.insight.')
StartsWithInsightPrefix(key) ==
    IF Len(key) > Len(InsightPrefix) THEN SubSeq(key, 1, Len(InsightPrefix)) = InsightPrefix ELSE FALSE

\* The values of a settings entry: null, false, a string, an array, an object.
Null == [null |-> TRUE]
False == [false |-> TRUE]
Str(s) == [string |-> s]
Array(l) == [array |-> l]

\* An insight object without the repositories property, and with it.
InsightObject == [series |-> SeriesOf(1), step |-> Unset]
WithRepositories(r) == [series |-> SeriesOf(1), step |-> Unset, repositories |-> r]

\* repositories?: 'current' | 'all' | string[]
Scopes == {Str("current"), Str("all"), Array(<<"a">>), Array(<<"a", "b">>)}

\* The values the entry of the first insight takes, and those of the second.
InsightValues == {Null, False, InsightObject} \cup {WithRepositories(r) : r \in Scopes}
SecondInsightValues == {WithRepositories(Str("current")), WithRepositories(Array(<<"b">>))}
ValuesOf(name) == IF name = InsightNames[1] THEN InsightValues ELSE SecondInsightValues
\* The values of the other key are insight objects too: the key alone tells
\* that they are not insights.
OtherValues == {InsightObject, WithRepositories(Array(<<"a">>))}

\* The entries of the insight keys, in the order of the settings object: no
\* key, one key, both keys in either order.
EntriesOf(name) == {<<InsightKey(name), v>> : v \in ValuesOf(name)}
InsightEntryLists ==
    {<<>>}
    \cup {<<e>> : e \in EntriesOf(InsightNames[1]) \cup EntriesOf(InsightNames[2])}
    \cup {<<e, f>> : e \in EntriesOf(InsightNames[1]), f \in EntriesOf(InsightNames[2])}
    \cup {<<f, e>> : e \in EntriesOf(InsightNames[1]), f \in EntriesOf(InsightNames[2])}

\* Object.entries(sourcegraph.configuration.get().value)
SettingsValues == {<<<<OtherKey, o>>>> \o l : o \in OtherValues, l \in InsightEntryLists}

\* The settings without the entry of a key.
Without(s, key) == SelectSeq(s, LAMBDA e : e[1] # key)

\* A notification follows the edit of at most one key: its value changed, it
\* was added, removed or moved.
OneEdit(s, t) == \E key \in SettingsKeys : Without(s, key) = Without(t, key)

\* Object.entries(settings).filter(([key]) => key.startsWith('searchInsights.insight.'))
InsightEntries(s) == SelectSeq(s, LAMBDA e : StartsWithInsightPrefix(e[1]))

\* Mutant of isEqual: the comparison by reference of distinctUntilChanged()
\* without comparator; every settings value is a new array.
isEqualByReference(a, b) == FALSE

\* lodash isEqual(a, b): deep equality; arrays are equal when their elements
\* are equal index by index.
isEqual(a, b) == a = b

\* if (!insight) { return }
Falsy(value) == value = Null \/ value = False

\* A destructuring that defaults to every repository.
RepositoriesOfDefaultAll(ins) ==
    IF "repositories" \in DOMAIN ins THEN ins.repositories ELSE Str("all")

\* const { repositories = 'current' } = insight
RepositoriesOf(ins) == IF "repositories" \in DOMAIN ins THEN ins.repositories ELSE Str("current")

\* Array.isArray(repositories)
IsArray(value) == "array" \in DOMAIN value

\* The directory the viewer is at, and resolveDocumentURI of ./uri.
ViewerDirectory == [repo |-> RepoNames[4], path |-> <<"src">>]
resolveDocumentURI(uri) == [repo |-> uri.repo, path |-> uri.path]

\* A registered view provider: its id, its placement, and its provideView:
\* whether it resolves the viewer's directory, the repository list it passes
\* otherwise, and the insight it passes.
Provider(id, where, resolves, repositories, ins) ==
    [id |-> id, where |-> where, resolves |-> resolves, repositories |-> repositories, insight |-> ins]

\* registerViewProvider(`${id}.directory`, ...) with a provideView that
\* resolves the viewer's directory.
DirectoryProvider(id, ins) == Provider(id \o <<"directory">>, "directory", TRUE, <<>>, ins)

\* registerViewProvider(`${id}.homepage`, ...) and (`${id}.insightsPage`, ...) with
\* provideView = () => getInsightContent(repositories, undefined, insight)
HomePageProvider(id, ins) ==
    Provider(id \o <<"homepage">>, "homepage", FALSE, RepositoriesOf(ins).array, ins)
InsightPageProvider(id, ins) ==
    Provider(id \o <<"insightsPage">>, "insightsPage", FALSE, RepositoriesOf(ins).array, ins)

\* The providers the subscriber registers for an entry and adds to
\* context.subscriptions.
AddedToContext(entry) ==
    IF Falsy(entry[2]) THEN <<>>
    ELSE IF RepositoriesOf(entry[2]) = Str("current") THEN <<DirectoryProvider(entry[1], entry[2])>>
    ELSE <<>>

\* The providers the subscriber registers for an entry and adds to
\* previousSubscriptions.
AddedToPrevious(entry) ==
    IF Falsy(entry[2]) THEN <<>>
    ELSE IF RepositoriesOf(entry[2]) = Str("current") THEN <<>>
    ELSE IF IsArray(RepositoriesOf(entry[2]))
    THEN <<InsightPageProvider(entry[1], entry[2]),
           DirectoryProvider(entry[1], entry[2]),
           HomePageProvider(entry[1], entry[2])>>
    ELSE <<>>

\* provideView of a provider: the arguments of its getInsightContent call.
ProvideViewCall(p) ==
    IF p.resolves
    THEN [provider |-> p.id, resolved |-> TRUE,
          repos |-> <<resolveDocumentURI(ViewerDirectory).repo>>,
          path |-> resolveDocumentURI(ViewerDirectory).path,
          insight |-> p.insight]
    ELSE [provider |-> p.id, resolved |-> FALSE,
          repos |-> p.repositories, path |-> NoPath, insight |-> p.insight]

\* Mutant of Emit: the new bag is not added to context.subscriptions.
EmitBagNotAdded(entries) ==
    /\ lastEntries' = <<entries>>
    /\ previousSubscriptions' = <<>>
    /\ bagInContext' = FALSE
    /\ merging' = entries
    /\ phase' = IF entries = <<>> THEN "idle" ELSE "merging"

\* distinctUntilChanged let the entries through: tap unsubscribes
\* previousSubscriptions, which unregisters its providers, replaces it by a
\* new bag and adds that bag to context.subscriptions; mergeAll then emits the
\* entries one by one.
Emit(entries) ==
    /\ lastEntries' = <<entries>>
    /\ previousSubscriptions' = <<>>
    /\ bagInContext' = TRUE
    /\ merging' = entries
    /\ phase' = IF entries = <<>> THEN "idle" ELSE "merging"

\* activate subscribes to insightChanges: startWith(null) emits the settings
\* as they are.
Activate ==
    /\ phase = "inactive"
    /\ Emit(InsightEntries(settings))
    /\ UNCHANGED <<settings, contextSubscriptions, notifications, provided>>
    /\ UNCHANGED <<pipelineVars, path, earlier>>

\* sourcegraph.configuration notifies of a change: the entries of the insight
\* keys are emitted unless isEqual to those emitted last.
ConfigurationChanged ==
    /\ phase = "idle"
    /\ notifications < MaxNotifications
    /\ \E next \in SettingsValues :
        /\ OneEdit(settings, next)
        /\ settings' = next
        /\ IF isEqual(lastEntries[1], InsightEntries(next))
           THEN UNCHANGED <<lastEntries, previousSubscriptions, bagInContext, merging, phase>>
           ELSE Emit(InsightEntries(next))
    /\ notifications' = notifications + 1
    /\ provided' = <<>>
    /\ UNCHANGED contextSubscriptions
    /\ UNCHANGED <<pipelineVars, path, earlier>>

\* The subscriber is called with the next entry [id, insight] of the emission.
SubscriberNext ==
    /\ phase = "merging"
    /\ contextSubscriptions' = contextSubscriptions \o AddedToContext(Head(merging))
    /\ previousSubscriptions' = previousSubscriptions \o AddedToPrevious(Head(merging))
    /\ merging' = Tail(merging)
    /\ phase' = IF Tail(merging) = <<>> THEN "idle" ELSE "merging"
    /\ UNCHANGED <<settings, lastEntries, bagInContext, notifications, provided>>
    /\ UNCHANGED <<pipelineVars, path, earlier>>

\* The registered providers: those whose registration was not unsubscribed.
RegisteredProviders == previousSubscriptions \o contextSubscriptions

\* The host asks a registered provider for its view.
ProvideView ==
    /\ phase = "idle"
    /\ \E k \in 1..Len(RegisteredProviders) :
        /\ provided' = <<ProvideViewCall(RegisteredProviders[k])>>
        /\ provided' # provided
    /\ UNCHANGED <<settings, lastEntries, merging, previousSubscriptions, bagInContext,
                   contextSubscriptions, notifications, phase>>
    /\ UNCHANGED <<pipelineVars, path, earlier>>

\* The extension is deactivated: context.subscriptions is unsubscribed, and
\* with it what activate added to it: the subscription to insightChanges, the
\* providers added directly, and the bags added by the tap with the providers
\* they hold.
Deactivate ==
    /\ phase = "idle"
    /\ phase' = "deactivated"
    /\ contextSubscriptions' = <<>>
    /\ previousSubscriptions' = IF bagInContext THEN <<>> ELSE previousSubscriptions
    /\ provided' = <<>>
    /\ UNCHANGED <<settings, lastEntries, merging, bagInContext, notifications>>
    /\ UNCHANGED <<pipelineVars, path, earlier>>

\* The settings change after the deactivation: the subscription to
\* insightChanges is closed and nothing is emitted.
ConfigurationChangedUnobserved ==
    /\ phase = "deactivated"
    /\ notifications < MaxNotifications
    /\ \E next \in SettingsValues :
        /\ OneEdit(settings, next)
        /\ settings' = next
    /\ notifications' = notifications + 1
    /\ UNCHANGED <<lastEntries, merging, previousSubscriptions, bagInContext, contextSubscriptions,
                   phase, provided>>
    /\ UNCHANGED <<pipelineVars, path, earlier>>

InitActivate ==
    /\ insight = [series |-> SeriesOf(1), step |-> Unset]
    /\ repos = <<>>
    /\ path = NoPath
    /\ clock \in Clocks
    /\ Idle
    /\ earlier = <<>>
    /\ settings \in SettingsValues
    /\ lastEntries = <<>>
    /\ merging = <<>>
    /\ previousSubscriptions = <<>>
    /\ bagInContext = FALSE
    /\ contextSubscriptions = <<>>
    /\ notifications = 0
    /\ phase = "inactive"
    /\ provided = <<>>

NextActivate ==
    \/ Activate \/ ConfigurationChanged \/ SubscriberNext \/ ProvideView
    \/ Deactivate \/ ConfigurationChangedUnobserved

SpecActivate == InitActivate /\ [][NextActivate]_vars

(* ------------------------------ properties ---------------------------- *)

SeriesNameSet == {insight.series[s].name : s \in 1..Len(insight.series)}

\* The response to repository r's commit-resolution call has a commit for the
\* sub-query of axis date k.
HadCommit(r, k) ==
    /\ call[r] = "done"
    /\ \E p \in 1..Len(commitResults[r].data) :
        /\ FieldIndex(commitResults[r].data[p][1]) = k - 1
        /\ Len(commitResults[r].data[p][2]) > 0

\* The tasks of series `name` at axis date k, as positions of searchQueries.
TasksFor(k, name) ==
    {p \in 1..Len(searchQueries) : searchQueries[p].date = k /\ searchQueries[p].name = name}

\* The result the successful bulk search reported for task p: <<count>>, or <<>> for null.
Reported(p) ==
    IF FieldIndex(rawSearchResults[p][1]) = p - 1 THEN rawSearchResults[p][2]
    ELSE LET q == CHOOSE q \in 1..Len(rawSearchResults) : FieldIndex(rawSearchResults[q][1]) = p - 1
         IN  rawSearchResults[q][2]

RECURSIVE SumReported(_)
SumReported(T) ==
    IF T = {} THEN 0
    ELSE LET p == CHOOSE p \in T : TRUE IN Reported(p)[1] + SumReported(T \ {p})

C2_SumAcrossRepositories ==
    pc = "done" =>
        \A k \in 1..7 : \A name \in SeriesNameSet :
            LET T == TasksFor(k, name)
            IN  (/\ T # {}
                 /\ {searchQueries[p].repo : p \in T} = {repos[r] : r \in {r \in 1..Len(repos) : HadCommit(r, k)}}
                 /\ \A p \in T : Reported(p) # <<>>)
                => data[k].vals[name] = <<SumReported(T)>>

\* Two repositories report 2 and 5 for series X at the same date: the value is 7.
C2_Witness ==
    /\ pc = "done"
    /\ Len(repos) = 2
    /\ \E k \in 1..7 :
        /\ \E p, q \in TasksFor(k, "X") :
            /\ searchQueries[p].repo # searchQueries[q].repo
            /\ Reported(p) = <<2>>
            /\ Reported(q) = <<5>>
        /\ data[k].vals["X"] = <<7>>

\* C3: every returned view has exactly one data point per axis date, 7 in all,
\* and each data point has an entry for every configured series name.
C3_EveryDateEverySeries ==
    view # <<>> =>
        /\ Len(view[1].data) = 7
        /\ \A k \in 1..Len(view[1].data) : DOMAIN view[1].data[k].vals = SeriesNameSet
        /\ Len(dates) = 7

\* A view returned although no repository had a commit at any date, and one
\* returned after a search without any sub-query.
C3_Witness ==
    /\ view # <<>>
    /\ Len(insight.series) = 2
    /\ repos # <<>>
    /\ searchQueries = <<>>
    /\ \A k \in 1..7 : \A r \in 1..Len(repos) : ~HadCommit(r, k)
    /\ \A k \in 1..7 : \A name \in SeriesNameSet : view[1].data[k].vals[name] = EMPTY_DATA_POINT_VALUE

\* The length in hours of the step a configuration asks for: one day when unset.
StepHours == IF insight.step = Unset THEN 24 ELSE insight.step.days * 24 + insight.step.hours

\* C4: the date axis getDaysToQuery returns has exactly 7 points, oldest first,
\* its last point is the start of the current day, and consecutive points are
\* exactly one step apart.
C4_DateAxis ==
    pc = "axis" =>
        /\ Len(dates) = 7
        /\ dates[7] = clock - (clock % 24)
        /\ \A k \in 1..6 : dates[k + 1] - dates[k] = StepHours /\ dates[k] <= dates[k + 1]

\* An axis returned for a step of a day and a half, the clock not at midnight.
C4_Witness ==
    /\ pc = "axis"
    /\ insight.step = Duration(1, 12)
    /\ clock % 24 # 0
    /\ dates[7] - dates[1] = 6 * 36

\* C5: the data points are in ascending date order aligned with the axis:
\* point k carries the time of axis date k and, for a single repository, the
\* count reported for the task of date k; with one repository, one series, a
\* commit at every date and reported counts 3,3,4,4,4,5,5 the series has
\* exactly these values in this order.
C5_AlignedWithAxis ==
    pc = "done" =>
        /\ Len(view[1].data) = 7
        /\ \A k \in 1..7 : view[1].data[k].date = dates[k]
        /\ \A k \in 1..6 : view[1].data[k].date <= view[1].data[k + 1].date
        /\ Len(repos) = 1 =>
            \A k \in 1..7 : \A p \in 1..Len(searchQueries) :
                (searchQueries[p].date = k /\ Reported(p) # <<>>)
                    => view[1].data[k].vals[searchQueries[p].name] = Reported(p)
        /\ (/\ Len(repos) = 1
            /\ Len(insight.series) = 1
            /\ \A k \in 1..7 : HadCommit(1, k)
            /\ \A p \in 1..Len(searchQueries) :
                Reported(p) = <<WeeklyCounts[searchQueries[p].date]>>)
           => [k \in 1..7 |-> view[1].data[k].vals["X"]]
                = <<<<3>>, <<3>>, <<4>>, <<4>>, <<4>>, <<5>>, <<5>>>>

\* The scenario: one repository, one series, commits at all 7 dates, counts 3,3,4,4,4,5,5.
C5_Witness ==
    /\ pc = "done"
    /\ Len(repos) = 1
    /\ Len(insight.series) = 1
    /\ \A k \in 1..7 : HadCommit(1, k)
    /\ Len(searchQueries) = 7
    /\ \A p \in 1..7 : Reported(p) = <<WeeklyCounts[p]>>
    /\ [k \in 1..7 |-> view[1].data[k].vals["X"]] = <<<<3>>, <<3>>, <<4>>, <<4>>, <<4>>, <<5>>, <<5>>>>

\* C6: within one computation the bulk search is attempted at most 4 times (one
\* attempt and at most 3 retries); a new attempt is made only when the previous
\* one failed, none follows a successful one, and when the fourth attempt
\* fails the computation fails.
C6_RetryBound ==
    /\ [](attempts <= 4)
    /\ [][/\ attempts' # attempts => attempts' = attempts + 1
          /\ (attempts >= 1 /\ attempts' > attempts)
                => (pc = "searching" /\ pc' = "searching" /\ lastOutcome' \in {"timeout", "errors"})
          /\ lastOutcome = "ok" => (attempts' = attempts /\ pc' = "done")
          /\ (pc = "searching" /\ attempts = 4 /\ pc' # "done")
                => (pc' = "failed" /\ failure' = "countSearch" /\ view' = <<>>)]_vars

\* The fourth attempt failed and the computation failed.
C6_Witness ==
    /\ pc = "failed"
    /\ failure = "countSearch"
    /\ attempts = 4
    /\ lastOutcome \in {"timeout", "errors"}

\* C7: a bulk search that fails with an error list of the API (not a timeout)
\* is not retried: the computation fails with that attempt.
C7_NoRetryOfNonRetryable ==
    lastOutcome = "errors" => (pc = "failed" /\ failure = "countSearch")

\* The response to repository r's call has, for some sub-query, a commit dated
\* strictly after the date of the sub-query.
HasLateCommit(r) ==
    \E p \in 1..Len(commitResults[r].data) :
        LET e == commitResults[r].data[p]
        IN  /\ Len(e[2]) > 0
            /\ e[2][1].committer # <<>>
            /\ e[2][1].committer[1] > dates[FieldIndex(e[1]) + 1]

\* The response to repository r's call is as the API promises: no rejection, no
\* errors, every field at its index, every commit with a committer date at or
\* before the date of its sub-query.
WellFormed(r) ==
    /\ ~commitResults[r].rejected
    /\ commitResults[r].errors = <<>>
    /\ \A p \in 1..Len(commitResults[r].data) :
        LET e == commitResults[r].data[p]
        IN  /\ FieldIndex(e[1]) = p - 1
            /\ Len(e[2]) > 0 => (e[2][1].committer # <<>> /\ e[2][1].committer[1] <= dates[p])

\* C8: a commit dated strictly after the date of its sub-query fails the whole
\* computation: determineCommitsToSearch throws, the commit is not used, no
\* bulk search is issued and no view returned; a commit dated exactly at the
\* date is accepted.
C8_LateCommitIsFatal ==
    \A r \in DOMAIN call :
        call[r] # "pending" =>
            /\ HasLateCommit(r) =>
                /\ call[r] = "failed"
                /\ commits[r] = <<>>
                /\ pc = "failed"
                /\ failure = "commitResolution"
                /\ attempts = 0
                /\ searchQueries = <<>>
                /\ view = <<>>
            /\ WellFormed(r) =>
                /\ call[r] = "done"
                /\ \A p \in 1..Len(commitResults[r].data) :
                    LET res == commitResults[r].data[p][2]
                    IN  (Len(res) > 0 /\ res[1].committer[1] = dates[p])
                            => commits[r][p].commit = res[1].oid

\* One repository resolved with a commit dated exactly at a date, the other
\* returned a late commit and the computation failed.
C8_Witness ==
    /\ Len(repos) = 2
    /\ pc = "failed"
    /\ call[1] = "done"
    /\ HadCommit(1, 1)
    /\ commitResults[1].data[1][2][1].committer[1] = dates[1]
    /\ commits[1][1].commit = <<"a", 1>>
    /\ call[2] = "failed"
    /\ HasLateCommit(2)

\* C9: a sub-query without result does not fail determineCommitsToSearch: that
\* date gets a null commit, the other dates of the repository are resolved,
\* and in the returned view the repository contributes nothing at that date.
C9_NoResultIsAbsent ==
    /\ \A r \in DOMAIN call :
        (call[r] # "pending" /\ WellFormed(r)) =>
            /\ call[r] = "done"
            /\ Len(commits[r]) = Len(commitResults[r].data)
            /\ \A p \in 1..Len(commitResults[r].data) :
                LET res == commitResults[r].data[p][2]
                IN  commits[r][p] = [commit |-> IF Len(res) = 0 THEN NullCommit ELSE res[1].oid,
                                     date |-> p]
    /\ (pc # "idle" /\ \A r \in DOMAIN call : call[r] # "pending" /\ WellFormed(r))
            => (pc \in {"searching", "done"} \/ failure = "countSearch")
    /\ pc = "done" =>
        \A r \in DOMAIN call : \A k \in 1..7 :
            ~HadCommit(r, k) => ~(\E p \in 1..Len(searchQueries) :
                                    searchQueries[p].repo = repos[r] /\ searchQueries[p].date = k)

\* A view returned for one repository without a commit at the first and the
\* fourth date and with commits at the others.
C9_Witness ==
    /\ pc = "done"
    /\ Len(repos) = 1
    /\ commits[1][4].commit = NullCommit
    /\ commits[1][5].commit = <<"a", 5>>
    /\ Len(searchQueries) = 5 * Len(insight.series)
    /\ view[1].data[4].vals["X"] = EMPTY_DATA_POINT_VALUE
    /\ view[1].data[5].vals["X"] # EMPTY_DATA_POINT_VALUE

\* The commit-resolution call of repository r ended in failure: the command
\* rejected or the API returned errors.
CommitCallFailed(r) ==
    call[r] # "pending" /\ (commitResults[r].rejected \/ Len(commitResults[r].errors) > 0)

\* C10: no partial chart: when a commit-resolution call of any repository
\* fails, or the bulk search fails with no retry left, no view is returned and
\* the caller gets the failure; a view is returned only when every
\* repository's commit resolution and the bulk search succeeded.
C10_NoPartialChart ==
    /\ (\E r \in DOMAIN call : CommitCallFailed(r))
            => (pc = "failed" /\ failure = "commitResolution" /\ view = <<>>)
    /\ failure = "countSearch" => (pc = "failed" /\ view = <<>> /\ lastOutcome \in {"timeout", "errors"})
    /\ pc = "failed" => (view = <<>> /\ failure # "none")
    /\ view # <<>> =>
        /\ pc = "done"
        /\ failure = "none"
        /\ \A r \in DOMAIN call : call[r] = "done" /\ ~CommitCallFailed(r)
        /\ lastOutcome = "ok"
    /\ pc = "done" => view # <<>>

\* Two repositories: the call of the first succeeded, the call of the second
\* was rejected, and the computation failed without a view.
C10_Witness ==
    /\ Len(repos) = 2
    /\ pc # "idle"
    /\ call[1] = "done"
    /\ \E k \in 1..7 : HadCommit(1, k)
    /\ commitResults[2].rejected
    /\ call[2] = "failed"
    /\ pc = "failed"
    /\ view = <<>>

\* The commit-resolution call of repository r got a non-empty error list.
GotErrors(r) == call[r] # "pending" /\ ~commitResults[r].rejected /\ Len(commitResults[r].errors) > 0

\* C11: queryGraphQL treats a non-empty error list as the failure of the whole
\* call, also when data came beside the errors: the commit-resolution call
\* fails, no commit of its data is used and no search is issued; a bulk search
\* answered by an error list leaves the data points untouched and returns no view.
C11_ErrorsFailWholeCall ==
    /\ \A r \in DOMAIN call :
        GotErrors(r) =>
            /\ call[r] = "failed"
            /\ commits[r] = <<>>
            /\ ~(\E p \in 1..Len(searchQueries) : searchQueries[p].repo = repos[r])
            /\ pc = "failed"
            /\ failure = "commitResolution"
            /\ view = <<>>
    /\ lastOutcome = "errors" =>
        /\ rawSearchResults = <<>>
        /\ data = InitialData(dates, insight.series)
        /\ view = <<>>

\* The response to a commit-resolution call had a commit for every date and
\* an error list beside them, and the computation failed.
C11_Witness ==
    /\ pc = "failed"
    /\ \E r \in DOMAIN call :
        /\ GotErrors(r)
        /\ Len(commitResults[r].data) = 7
        /\ \A p \in 1..7 : Len(commitResults[r].data[p][2]) > 0
        /\ call[r] = "failed"

\* The settings key (the insight id) a provider id was made from.
InsightIdOf(providerId) == SubSeq(providerId, 1, Len(providerId) - 1)

\* The registered providers of an insight id, as positions of RegisteredProviders.
RegisteredFor(id) ==
    {k \in 1..Len(RegisteredProviders) : InsightIdOf(RegisteredProviders[k].id) = id}

\* C12: teardown before reinstall: when the subscriber is about to register
\* the providers of an insight id, no provider registered earlier for that id
\* is still registered, whatever the repositories scope; and at no time are
\* two providers registered under the same provider id.
C12_TeardownBeforeReinstall ==
    /\ phase = "merging" =>
        (AddedToContext(Head(merging)) \o AddedToPrevious(Head(merging)) # <<>>
            => RegisteredFor(Head(merging)[1]) = {})
    /\ \A j, k \in 1..Len(RegisteredProviders) :
        j # k => RegisteredProviders[j].id # RegisteredProviders[k].id

\* C13: a configuration-change notification that leaves the entries of the
\* 'searchInsights.insight.' keys deep-equal to those emitted before (only
\* other settings changed, or nothing did) unregisters no provider and
\* registers none.
C13_EqualEntriesNoEffect ==
    [][(notifications' = notifications + 1 /\ InsightEntries(settings') = InsightEntries(settings))
        => UNCHANGED <<previousSubscriptions, contextSubscriptions, merging, phase>>]_vars

\* Both insights are 'current' and notifications were processed, yet each has
\* the one provider registered at activation: every notification that emits
\* the entries registers a provider for each of them again, so none did.
C13_Witness ==
    /\ notifications = MaxNotifications
    /\ phase = "idle"
    /\ Len(InsightEntries(settings)) = 2
    /\ \A k \in 1..2 : InsightEntries(settings)[k][2] = WithRepositories(Str("current"))
    /\ Len(RegisteredProviders) = 2
    /\ RegisteredProviders[1].id # RegisteredProviders[2].id

\* The entry of a key in the settings: <<>> when the key is not set.
EntryOf(s, key) == SelectSeq(s, LAMBDA e : e[1] = key)

\* The registered providers of an insight id.
ProvidersFor(registered, id) == SelectSeq(registered, LAMBDA p : InsightIdOf(p.id) = id)

\* C14: re-registration is per insight id: a notification that changes the
\* entry of one insight leaves the providers of every insight whose entry is
\* unchanged registered, and hands none of the unchanged entries to the
\* subscriber to be registered again.
C14_OtherInsightsUntouched ==
    [][notifications' = notifications + 1 =>
        \A n \in 1..Len(InsightNames) :
            LET id == InsightKey(InsightNames[n])
            IN  (EntryOf(settings, id) # <<>> /\ EntryOf(settings', id) = EntryOf(settings, id)) =>
                    /\ ProvidersFor(RegisteredProviders', id) = ProvidersFor(RegisteredProviders, id)
                    /\ \A k \in 1..Len(merging') :
                        merging'[k][1] = id
                            => AddedToContext(merging'[k]) \o AddedToPrevious(merging'[k]) = <<>>]_vars

\* The entry of an insight id is active: set, and an object (not null, not false).
Active(id) == EntryOf(settings, id) # <<>> /\ ~Falsy(EntryOf(settings, id)[1][2])

\* The placements of the providers registered for an insight id.
PlacementsOf(id) == {RegisteredProviders[k].where : k \in RegisteredFor(id)}

\* C15: once a settings snapshot is processed, a provider is registered for an
\* insight id exactly when its entry is active, whatever the repositories
\* scope; the placements are directory for 'current' (also by default) and
\* directory, homepage and insightsPage for an explicit list.
C15_ProviderIffActive ==
    phase = "idle" =>
        \A n \in 1..Len(InsightNames) :
            LET id == InsightKey(InsightNames[n])
            IN  /\ RegisteredFor(id) # {} <=> Active(id)
                /\ Active(id) =>
                    LET repositories == RepositoriesOf(EntryOf(settings, id)[1][2])
                    IN  /\ repositories = Str("current") => PlacementsOf(id) = {"directory"}
                        /\ IsArray(repositories)
                                => PlacementsOf(id) = {"directory", "homepage", "insightsPage"}

\* C16: resolveDocumentURI is called only by providers of insights whose
\* repositories scope is 'current'; a provider of an insight with an explicit
\* list, on any placement, does not resolve the viewer's directory and
\* computes over the configured list.
C16_ResolveOnlyForCurrent ==
    provided # <<>> =>
        LET repositories == RepositoriesOf(provided[1].insight)
        IN  /\ provided[1].resolved => repositories = Str("current")
            /\ IsArray(repositories) =>
                (~provided[1].resolved /\ provided[1].repos = repositories.array)

\* The instant an ISO 8601 text stands for.
ParseISO(iso) == iso.isoDate * 24 + iso.isoTime

\* The parts of the query of a link that are filters of a kind.
FiltersOf(q, kind) == SelectSeq(q, LAMBDA t : "filter" \in DOMAIN t /\ t.filter = kind)

\* C18: for every series and every axis date d, the link at d's position in
\* linkURLs is a diff search whose after is d minus one step and whose before
\* is d, and whose query ends with the series' query fragment as configured;
\* each series has exactly 7 links, in the order of the axis.
C18_DrillDownLinks ==
    pc = "done" =>
        \A s \in 1..Len(insight.series) :
            LET links == view[1].series[s].linkURLs
            IN  /\ Len(links) = 7
                /\ \A k \in 1..7 :
                    LET q == links[k].q
                    IN  /\ links[k].pathname = "/search"
                        /\ FiltersOf(q, "type") = <<[filter |-> "type", type |-> "diff"]>>
                        /\ Len(FiltersOf(q, "after")) = 1
                        /\ ParseISO(FiltersOf(q, "after")[1].after) = dates[k] - StepHours
                        /\ Len(FiltersOf(q, "before")) = 1
                        /\ ParseISO(FiltersOf(q, "before")[1].before) = dates[k]
                        /\ SubSeq(q, Len(q) - Len(insight.series[s].query) + 1, Len(q))
                                = insight.series[s].query

\* A view of two series with a step of one day: the links of the second
\* series, whose fragment has a count filter, go back day by day.
C18_Witness ==
    /\ pc = "done"
    /\ Len(insight.series) = 2
    /\ insight.step = Duration(MaxStepDays, 0)
    /\ view[1].series[2].linkURLs[7].q[3].after = formatISO(dates[6])
    /\ view[1].series[2].linkURLs[7].q[4].before = formatISO(dates[7])
    /\ view[1].series[2].linkURLs[1].q[4].before = formatISO(dates[1])
    /\ view[1].series[2].linkURLs[7].q[6] = CountFilter(1000)

\* C19: the repository filter of every link is one filter that covers
\* exactly the repositories the computation queried, those without a commit
\* at the date of the link included: an alternation of all of them.
C19_LinkRepoFilter ==
    pc = "done" =>
        \A s \in 1..Len(insight.series) : \A k \in 1..7 :
            LET filters == FiltersOf(view[1].series[s].linkURLs[k].q, "repo")
            IN  /\ Len(filters) = 1
                /\ Len(filters[1].anyOf) = Len(repos)
                /\ \A r \in 1..Len(repos) : filters[1].anyOf[r] = escapeRegExp(repos[r])

\* Two repositories, the second without a commit at the first date: the
\* link of the first date covers both.
C19_Witness ==
    /\ pc = "done"
    /\ Len(repos) = 2
    /\ HadCommit(1, 1)
    /\ ~HadCommit(2, 1)
    /\ view[1].series[1].linkURLs[1].q[1].anyOf = <<escapeRegExp("a"), escapeRegExp("b")>>

\* The query fragment configured for the series of a name.
FragmentOf(name) ==
    insight.series[CHOOSE s \in 1..Len(insight.series) : insight.series[s].name = name].query

\* The parts of a count query after its repository and file filters.
AfterScope(q) ==
    SelectSeq(q, LAMBDA t : ~("filter" \in DOMAIN t /\ t.filter \in {"repo", "file"}))

C21_StepStrictlyPositive ==
    pc = "axis" =>
        /\ \A k \in 1..(NumDates - 1) :
               dates[k + 1] - dates[k] = (IF StepHours = 0 THEN HoursPerDay ELSE StepHours)
        /\ \A j, k \in 1..NumDates : j # k => dates[j] # dates[k]

\* ---------------------------------------------------------------------------
\* The scope of an entry is one for which the subscriber registers providers.
RegisteringScope(value) ==
    IF Falsy(value) THEN FALSE
    ELSE RepositoriesOf(value) = Str("current") \/ IsArray(RepositoriesOf(value))

\* C22.  Only the settings keys that start with 'searchInsights.insight.' are
\* insights: a key without the prefix is never handed to the subscriber and
\* never has a provider registered, although its value is an insight object;
\* and when several keys have the prefix, each has providers registered under
\* its own id, for its own value.
C22_OnlyPrefixedKeys ==
    /\ \A k \in 1..Len(RegisteredProviders) :
        LET id == InsightIdOf(RegisteredProviders[k].id)
        IN  /\ Len(id) = 3
            /\ id[1] = "searchInsights" /\ id[2] = "insight"
            /\ id # OtherKey
    /\ \A k \in 1..Len(merging) : merging[k][1] # OtherKey
    /\ phase = "idle" =>
        \A n \in 1..Len(InsightNames) :
            LET id == InsightKey(InsightNames[n])
                entry == EntryOf(settings, id)
            IN  (entry # <<>> /\ RegisteringScope(entry[1][2])) =>
                    \E k \in RegisteredFor(id) : RegisteredProviders[k].insight = entry[1][2]

\* Both insight keys are set to objects of different scopes beside the key
\* without the prefix: each of the two has its providers, the third has none.
C22_Witness ==
    /\ phase = "idle"
    /\ EntryOf(settings, OtherKey) # <<>>
    /\ ~Falsy(EntryOf(settings, OtherKey)[1][2])
    /\ EntryOf(settings, InsightKey("A")) # <<>>
    /\ EntryOf(settings, InsightKey("B")) # <<>>
    /\ EntryOf(settings, InsightKey("A"))[1][2] = WithRepositories(Array(<<"a">>))
    /\ EntryOf(settings, InsightKey("B"))[1][2] = WithRepositories(Str("current"))
    /\ Cardinality(RegisteredFor(InsightKey("A"))) = 3
    /\ Cardinality(RegisteredFor(InsightKey("B"))) >= 1
    /\ RegisteredFor(OtherKey) = {}

\* ---------------------------------------------------------------------------
\* The insight object has no repositories property.
NoRepositoriesField(value) == ~Falsy(value) /\ "repositories" \notin DOMAIN value

\* C23.  An active insight without the repositories property behaves as one
\* with repositories = 'current': the subscriber called with it registers one
\* provider and no more, for the directory placement, under the id of the
\* insight; and the view of that provider is computed over the repository and
\* the path of the directory viewed.
C23_NoRepositoriesIsCurrent ==
    /\ [](\A k \in 1..Len(RegisteredProviders) :
            NoRepositoriesField(RegisteredProviders[k].insight) =>
                /\ RegisteredProviders[k].where = "directory"
                /\ RegisteredProviders[k].resolves)
    /\ [](\A k \in 1..Len(provided) :
            NoRepositoriesField(provided[k].insight) =>
                /\ provided[k].resolved
                /\ provided[k].repos = <<ViewerDirectory.repo>>
                /\ provided[k].path = ViewerDirectory.path)
    /\ [][(phase = "merging" /\ merging' = Tail(merging) /\ NoRepositoriesField(Head(merging)[2])) =>
            /\ Len(RegisteredProviders') = Len(RegisteredProviders) + 1
            /\ \E k \in 1..Len(RegisteredProviders') :
                /\ RegisteredProviders'[k].id = Head(merging)[1] \o <<"directory">>
                /\ RegisteredProviders'[k].insight = Head(merging)[2]
                /\ RegisteredProviders'[k] =
                     [DirectoryProvider(Head(merging)[1], WithRepositories(Str("current")))
                        EXCEPT !.insight = Head(merging)[2]]]_vars

\* The one provider of an insight without the repositories property was asked
\* for its view on the directory viewed.
C23_Witness ==
    /\ phase = "idle"
    /\ Len(provided) = 1
    /\ provided[1].insight = InsightObject
    /\ provided[1].provider = InsightKey("A") \o <<"directory">>
    /\ provided[1].repos = <<RepoNames[4]>>
    /\ Cardinality(RegisteredFor(InsightKey("A"))) = 1

\* ---------------------------------------------------------------------------
\* The (repository, date) pairs whose commit is present.
PresentCommits == {rk \in (1..Len(repos)) \X (1..NumDates) : HadCommit(rk[1], rk[2])}

\* C24.  The task list of the bulk search has exactly one task for each
\* series, repository and date whose commit is present, and none for a
\* repository and date whose commit is absent: the (series, repository, date)
\* of the tasks are the series combined with the present commits, no two tasks
\* have the same, the length of the list is the number of series times the
\* number of present commits, and no task is scoped to a null revision.
C24_OneTaskPerPresentCommit ==
    attempts >= 1 =>
        /\ {<<searchQueries[p].name, searchQueries[p].repo, searchQueries[p].date>> :
                p \in 1..Len(searchQueries)}
             = {<<name, repos[rk[1]], rk[2]>> : name \in SeriesNameSet, rk \in PresentCommits}
        /\ Cardinality({<<searchQueries[p].name, searchQueries[p].repo, searchQueries[p].date>> :
                p \in 1..Len(searchQueries)}) = Len(searchQueries)
        /\ Len(searchQueries) = Len(insight.series) * Cardinality(PresentCommits)
        /\ \A p \in 1..Len(searchQueries) :
            /\ searchQueries[p].commit # NullCommit
            /\ searchQueries[p].query[1].rev # NullCommit

\* Two series over two repositories, one with a commit at every date and one
\* without a commit at the first and at a middle date: twelve present commits,
\* twenty-four tasks.
C24_Witness ==
    /\ attempts >= 1
    /\ Len(insight.series) = 2 /\ Len(repos) = 2
    /\ \A k \in 1..NumDates : HadCommit(1, k)
    /\ ~HadCommit(2, 1) /\ HadCommit(2, 2) /\ ~HadCommit(2, (NumDates + 1) \div 2)
    /\ Len(searchQueries) = 2 * (2 * NumDates - 2)

\* ---------------------------------------------------------------------------
\* A field of the response to repository r's commit-resolution call is not at
\* the position of its index.
HasMisplacedField(r) ==
    \E p \in 1..Len(commitResults[r].data) : FieldIndex(commitResults[r].data[p][1]) # p - 1

\* C25.  determineCommitsToSearch throws whenever the k-th field of the
\* response is not named search{k} (fields reordered, or a field missing before
\* the last), and the computation fails; when it returns, its k-th commit has
\* the k-th date of the axis and comes from the field search{k}.
C25_FieldOrderChecked ==
    \A r \in DOMAIN call :
        call[r] # "pending" =>
            /\ HasMisplacedField(r) =>
                /\ call[r] = "failed"
                /\ commits[r] = <<>>
                /\ pc = "failed"
                /\ failure = "commitResolution"
                /\ attempts = 0
                /\ view = <<>>
            /\ call[r] = "done" =>
                \A p \in 1..Len(commits[r]) :
                    /\ commits[r][p].date = p
                    /\ FieldIndex(commitResults[r].data[p][1]) = p - 1

\* The response of the first repository lacks its first field and the call
\* failed; that of the second lacks its last field only and its six commits
\* were returned.
C25_Witness ==
    /\ pc = "failed"
    /\ Len(repos) = 2
    /\ call[1] = "failed"
    /\ commitResults[1] = Returned(MissingEntries(dates, repos[1], 1), <<>>)
    /\ call[2] = "done"
    /\ commitResults[2] = Returned(MissingEntries(dates, repos[2], NumDates), <<>>)
    /\ Len(commits[2]) = NumDates - 1

\* ---------------------------------------------------------------------------
\* The sub-queries of repository r's response whose commit has no committer.
WithoutCommitter(r) ==
    {p \in 1..Len(commitResults[r].data) :
        IF Len(commitResults[r].data[p][2]) = 0 THEN FALSE
        ELSE commitResults[r].data[p][2][1].committer = <<>>}

\* C26.  A commit returned without committer information makes
\* determineCommitsToSearch throw: the call of its repository fails, the
\* computation fails without a payload, and no task of the bulk search is
\* scoped to that commit.
C26_NoCommitterIsFatal ==
    \A r \in DOMAIN call :
        (call[r] # "pending" /\ WithoutCommitter(r) # {}) =>
            /\ call[r] = "failed"
            /\ commits[r] = <<>>
            /\ pc = "failed"
            /\ failure = "commitResolution"
            /\ attempts = 0
            /\ view = <<>>
            /\ \A p \in WithoutCommitter(r) : \A q \in 1..Len(searchQueries) :
                searchQueries[q].commit # commitResults[r].data[p][2][1].oid

\* The commits of the first repository were returned; the response of the
\* second has a commit without committer at the last date and its call failed.
C26_Witness ==
    /\ pc = "failed"
    /\ Len(repos) = 2
    /\ call[1] = "done"
    /\ Len(commits[1]) = NumDates
    /\ call[2] = "failed"
    /\ commitResults[2] = Returned(NoCommitterEntries(dates, repos[2], NumDates), <<>>)
    /\ WithoutCommitter(2) = {NumDates}
    /\ view = <<>>

\* ---------------------------------------------------------------------------
\* C27.  A computation over n repositories issues n commit-resolution calls,
\* one per repository and in the order of the repositories, and none later:
\* each call has the seven sub-queries search0..search6, the k-th being the
\* commit query of its repository before the k-th date of the axis.
C27_OneCommitCallPerRepository ==
    pc # "idle" =>
        /\ Len(commitRequests) = Len(repos)
        /\ \A r \in 1..Len(commitRequests) :
            /\ Len(commitRequests[r]) = NumDates
            /\ \A k \in 1..NumDates :
                /\ commitRequests[r][k].field = <<"search", k - 1>>
                /\ Len(commitRequests[r][k].query) = 4
                /\ commitRequests[r][k].query[1].exactly = escapeRegExp(repos[r])
                /\ commitRequests[r][k].query[3].before = formatISO(dates[k])

\* The computation over two repositories ended with its payload, and two
\* calls were issued: the k-th sub-queries of both are for the same date.
C27_Witness ==
    /\ pc = "done"
    /\ Len(repos) = 2
    /\ Len(commitRequests) = 2
    /\ commitRequests[1][NumDates].query[1] # commitRequests[2][NumDates].query[1]
    /\ commitRequests[1][NumDates].query[3] = commitRequests[2][NumDates].query[3]
    /\ commitRequests[1][1].query[3] # commitRequests[1][NumDates].query[3]

\* ---------------------------------------------------------------------------
\* The position of a repository in the list of the computation, and that of a
\* series in the list of the insight.
RepoIndex(repo) == CHOOSE r \in 1..Len(repos) : repos[r] = repo
SeriesIndex(name) == CHOOSE s \in 1..Len(insight.series) : insight.series[s].name = name

\* Task p comes before task q in the order of the series, then of the
\* repositories, then of the dates.
TaskBefore(p, q) ==
    IF p.name # q.name THEN SeriesIndex(p.name) < SeriesIndex(q.name)
    ELSE IF p.repo # q.repo THEN RepoIndex(p.repo) < RepoIndex(q.repo)
    ELSE p.date < q.date

\* C28.  The commit-resolution calls of all repositories are started before
\* any of them returns, and what follows depends on the responses and not on
\* the order in which they came: the commits of a repository are those of its
\* own response; the tasks of the bulk search are in the order of the series,
\* then of the repositories, then of the dates, each scoped to the commit of
\* its repository and date; and the payload is the one computed from these
\* tasks and their results.
C28_CompletionOrderIrrelevant ==
    /\ (\E r \in DOMAIN call : call[r] # "pending") =>
        /\ DOMAIN call = 1..Len(repos)
        /\ Len(commitRequests) = Len(repos)
    /\ \A r \in DOMAIN call :
        call[r] = "done" => commits[r] = determineCommitsToSearch(dates, commitResults[r])
    /\ attempts >= 1 =>
        \A p \in 1..Len(searchQueries) :
            /\ searchQueries[p].commit =
                    commits[RepoIndex(searchQueries[p].repo)][searchQueries[p].date].commit
            /\ searchQueries[p].query[1] =
                    RepoAtCommit(searchQueries[p].repo, searchQueries[p].commit)
            /\ p < Len(searchQueries) => TaskBefore(searchQueries[p], searchQueries[p + 1])
    /\ pc = "done" =>
        view = <<View(insight.series,
                      Merge(dates, searchQueries, InitialData(dates, insight.series), rawSearchResults),
                      dates, StepOf(insight), repos)>>

\* The call of the second repository has returned, that of the first has not.
C28_Witness ==
    /\ pc = "resolving"
    /\ Len(repos) = 2
    /\ call[1] = "pending"
    /\ call[2] = "done"
    /\ commits[1] = <<>>
    /\ Len(commits[2]) = NumDates
    /\ commits[2][NumDates].commit = <<repos[2], NumDates>>

\* ---------------------------------------------------------------------------
\* C29.  The bulk search is issued only after the commit-resolution calls of
\* all repositories have returned their commits; once one of them has failed,
\* no bulk search is issued in the computation.
C29_SearchAfterAllCommits ==
    /\ attempts >= 1 => \A r \in DOMAIN call : call[r] = "done"
    /\ pc \in {"searching", "done"} => \A r \in DOMAIN call : call[r] = "done"
    /\ (\E r \in DOMAIN call : call[r] = "failed") =>
        /\ attempts = 0
        /\ searchQueries = <<>>
        /\ pc = "failed"

\* The first call failed, the second returned its commits after that, and no
\* bulk search was issued.
C29_Witness ==
    /\ pc = "failed"
    /\ Len(repos) = 2
    /\ call[1] = "failed"
    /\ call[2] = "done"
    /\ Len(commits[2]) = NumDates
    /\ attempts = 0

\* ---------------------------------------------------------------------------
RECURSIVE SumCounted(_)
\* The sum over the tasks T of the counts reported in the fields named after
\* their indices, a null result counting 0.
SumCounted(T) ==
    IF T = {} THEN 0
    ELSE LET p == CHOOSE p \in T : TRUE IN CountOrZero(Reported(p)) + SumCounted(T \ {p})

\* C30.  The result in the field search{i} of the bulk-search response goes to
\* the series and the date of task i, wherever the field is in the response:
\* the value of a series at a date is the sum of the results of the tasks of
\* that series and date and of no other, and the sentinel when there is none.
C30_ResultsGoToOwnTask ==
    pc = "done" =>
        /\ Len(rawSearchResults) = Len(searchQueries)
        /\ \A k \in 1..NumDates : \A name \in SeriesNameSet :
            data[k].vals[name] =
                (IF TasksFor(k, name) = {} THEN EMPTY_DATA_POINT_VALUE
                 ELSE <<SumCounted(TasksFor(k, name))>>)

\* The fields of the response came in reverse order, the last task's first:
\* the counts of the seven dates are still each at its own date.
C30_Witness ==
    /\ pc = "done"
    /\ Len(repos) = 1
    /\ Len(insight.series) = 1
    /\ Len(searchQueries) = NumDates
    /\ rawSearchResults[1] = <<FieldName(NumDates - 1), <<WeeklyCounts[NumDates]>>>>
    /\ rawSearchResults[NumDates] = <<FieldName(0), <<WeeklyCounts[1]>>>>
    /\ data[1].vals["X"] = <<WeeklyCounts[1]>>
    /\ data[NumDates].vals["X"] = <<WeeklyCounts[NumDates]>>
    /\ WeeklyCounts[1] # WeeklyCounts[NumDates]

\* ---------------------------------------------------------------------------
\* The tasks of the bulk search whose result in the response is null.
NullResults == {p \in 1..Len(searchQueries) : Reported(p) = <<>>}

\* C31.  A null result in a successful bulk-search response counts 0 for its
\* task: the computation ends with its payload, and the value of the series
\* and date of that task is a number, the sum of the results of the other
\* tasks of that series and date (0 when it has no other task), never the
\* sentinel.
C31_NullResultCountsZero ==
    (pc = "done" /\ NullResults # {}) =>
        /\ failure = "none"
        /\ view # <<>>
        /\ \A p \in NullResults :
            LET task == searchQueries[p]
                others == TasksFor(task.date, task.name) \ NullResults
            IN  /\ data[task.date].vals[task.name] # EMPTY_DATA_POINT_VALUE
                /\ data[task.date].vals[task.name] = <<SumCounted(others)>>
                /\ view[1].data[task.date].vals[task.name] = <<SumCounted(others)>>

\* Two repositories have a commit at the last date.  The result of the last
\* task, of the second repository, is null: the value stays the count of the
\* first repository.
C31_Witness ==
    /\ pc = "done"
    /\ Len(repos) = 2
    /\ HadCommit(1, NumDates) /\ HadCommit(2, NumDates)
    /\ NullResults = {Len(searchQueries)}
    /\ searchQueries[Len(searchQueries)].repo = repos[2]
    /\ searchQueries[Len(searchQueries)].date = NumDates
    /\ data[NumDates].vals[searchQueries[Len(searchQueries)].name] = <<2>>

\* One repository: the result of the first task is null and the value of its
\* series and date is 0.
C31_WitnessZero ==
    /\ pc = "done"
    /\ Len(repos) = 1
    /\ NullResults = {1}
    /\ data[searchQueries[1].date].vals[searchQueries[1].name] = <<0>>

\* ---------------------------------------------------------------------------
\* Every commit-resolution call has returned and no repository has a commit at
\* any date.
NoCommitAnywhere ==
    /\ pc # "idle"
    /\ \A r \in DOMAIN call : call[r] = "done"
    /\ \A r \in DOMAIN call : \A k \in 1..NumDates : ~HadCommit(r, k)

\* C32.  When no repository has a commit at any date there is no task, and
\* the bulk search is issued all the same, with no sub-query.  The payload,
\* the sentinel everywhere, is returned only after a call of it succeeded; a
\* failing call is retried, and the computation fails as for any bulk search
\* when the last retry fails.
C32_EmptySearchStillIssued ==
    NoCommitAnywhere =>
        /\ searchQueries = <<>>
        /\ attempts >= 1
        /\ pc \in {"searching", "done", "failed"}
        /\ view # <<>> =>
            /\ pc = "done"
            /\ lastOutcome = "ok"
            /\ rawSearchResults = <<>>
            /\ \A k \in 1..NumDates : \A name \in SeriesNameSet :
                view[1].data[k].vals[name] = EMPTY_DATA_POINT_VALUE
        /\ pc = "done" => view # <<>>
        /\ pc = "failed" =>
            /\ failure = "countSearch"
            /\ attempts = RetryCount + 1
            /\ lastOutcome \in {"timeout", "errors"}
            /\ view = <<>>

\* Two repositories without a commit at any date: the bulk search without
\* sub-queries failed, was retried and failed for good.
C32_Witness ==
    /\ NoCommitAnywhere
    /\ Len(repos) = 2
    /\ pc = "failed"
    /\ failure = "countSearch"
    /\ attempts = RetryCount + 1
    /\ searchQueries = <<>>

\* ---------------------------------------------------------------------------
\* C33.  Commit resolution is not retried.  From the start of a computation
\* to its end one call has been issued for each repository; a call that has
\* returned or failed stays so, with the response it got, and no call is
\* issued after it; and a call that failed, by a timeout or otherwise, has
\* failed the computation before any bulk search, which alone is retried.
C33_CommitResolutionNotRetried ==
    /\ [](pc # "idle" =>
            /\ Len(commitRequests) = Len(repos)
            /\ \A r \in 1..Len(repos) : commitRequests[r] = BulkSearchCommits(dates, repos[r]))
    /\ [](\A r \in DOMAIN call :
            call[r] = "failed" =>
                /\ pc = "failed"
                /\ failure = "commitResolution"
                /\ attempts = 0
                /\ view = <<>>)
    /\ [](\A r \in DOMAIN call :
            (call[r] # "pending" /\ commitResults[r].rejected) => call[r] = "failed")
    /\ [][pc # "idle" =>
            /\ commitRequests' = commitRequests
            /\ \A r \in DOMAIN call :
                call[r] # "pending" =>
                    /\ r \in DOMAIN call'
                    /\ call'[r] = call[r]
                    /\ commitResults'[r] = commitResults[r]]_vars

\* The one commit-resolution call of the one repository timed out: the
\* computation failed with that one call issued.
C33_Witness ==
    /\ pc = "failed"
    /\ Len(repos) = 1
    /\ call[1] = "failed"
    /\ commitResults[1] = Rejected
    /\ Len(commitRequests) = 1
    /\ failure = "commitResolution"
    /\ attempts = 0

\* ---------------------------------------------------------------------------
\* C34.  Once the settings are processed, an insight that is not in them, or
\* whose entry is null or false, has no provider registered, whatever the
\* repositories scope it had before.
C34_NoProviderOfRemovedInsight ==
    phase = "idle" =>
        \A n \in 1..Len(InsightNames) :
            ~Active(InsightKey(InsightNames[n])) => RegisteredFor(InsightKey(InsightNames[n])) = {}

\* ---------------------------------------------------------------------------
\* C35.  Every provider registered by activate is owned by
\* context.subscriptions: it was added to it, or it is held by the bag
\* previousSubscriptions and that bag was added to it.  So once the extension
\* is deactivated no provider is registered, and none is registered again
\* whatever the settings become.
C35_ContextOwnsProviders ==
    /\ previousSubscriptions # <<>> => bagInContext
    /\ phase = "deactivated" =>
        /\ RegisteredProviders = <<>>
        /\ merging = <<>>

\* The extension had providers of both kinds, it was deactivated, and the
\* settings changed after that: the entries of the insights are no longer
\* those emitted last, and no provider is registered.
C35_Witness ==
    /\ phase = "deactivated"
    /\ lastEntries # <<>>
    /\ Len(lastEntries[1]) = 2
    /\ lastEntries[1][1][2] = WithRepositories(Array(<<"a">>))
    /\ lastEntries[1][2][2] = WithRepositories(Str("current"))
    /\ InsightEntries(settings) # lastEntries[1]
    /\ RegisteredProviders = <<>>

====
